---- MODULE Spec2Model ----
(***************************************************************************)
(* Retrieval / context-assembly pipeline of the ITMO assistant:            *)
(*   RAGEngine.load_and_process_documents  (src/src/models/rag_engine.py)  *)
(*   RAGEngine.get_relevant_context        (src/src/models/rag_engine.py)  *)
(*   QueryExpander.expand_query            (src/src/tools/query_expander.py)*)
(*   process_texts_to_csv                  (src/src/utils/text_processor.py)*)
(*   OpenAIBot.__init__ / generate_response (src/src/models/openai_bot.py) *)
(*   predict                               (src/main.py)                   *)
(*                                                                         *)
(* A text is a record [s, n, ws]: s names the characters, n is len(text),  *)
(* ws is the number of leading/trailing whitespace characters among the n. *)
(* Two texts are the same Python string iff the records are equal.         *)
(* A URL is a sequence of string pieces whose concatenation is the URL, so *)
(* that str.startswith("http") is a test on the first piece.               *)
(***************************************************************************)
EXTENDS Integers, Sequences, FiniteSets, TLC

VARIABLES persisted, vector_store, sim, load, pc, call, inflight

vars == <<persisted, vector_store, sim, load, pc, call, inflight>>

(* ------------------------------ bounds --------------------------------- *)
MaxRows == 2
MaxPieces == 2
MaxN == 2
MaxLinksBound == 2
MaxQueries == 3
MaxStore == 2
MaxCalls == 2

(* ---------------------- configuration (config.py) ---------------------- *)
DefaultNumChunks == 5
BotNumChunks == 5
ChunkSize == 800
MinDocLength == 400
MinChunkLength == 300

None == "None"

(* An optional integer argument: None, or a given value.                    *)
NoneArg == [given |-> FALSE, value |-> 0]

Given(v) == [given |-> TRUE, value |-> v]

(* data/processed/texts_final.csv: missing, or its rows.                    *)
NoCsv == [exists |-> FALSE, rows |-> <<>>]

CsvFile(rows) == [exists |-> TRUE, rows |-> rows]

(* data/chroma_db: missing, or the chunks of its collection.                *)
NoDir == [exists |-> FALSE, chunks |-> <<>>]

Dir(chunks) == [exists |-> TRUE, chunks |-> chunks]

(* ------------------------------- data ---------------------------------- *)
T(s, n, ws) == [s |-> s, n |-> n, ws |-> ws]

PyLen(text) == text.n

Strip(text) == [s |-> text.s, n |-> text.n - text.ws, ws |-> 0]

UrlRel == <<"/docs/rel.html">>
UrlItmo == <<"http", "s://itmo.ru">>
UrlHistory == <<"http", "s://itmo.ru/ru/university/about/history.html">>
UrlMalformed == <<"http", "//itmo.ru/page">>

(* The label of a context that gets no URL, openai_bot.py line 69.          *)
Unknown == <<"unknown">>

(* The float nan that pandas puts where a CSV cell is empty: not a str.     *)
NaN == "float('nan')"
UrlNaN == <<NaN>>

IsStr(value) == value # UrlNaN

(* A content cell that is empty in the CSV: Series.str.len() is nan for it  *)
(* and nan >= min_doc_length is False.                                      *)
MissingContent == [s |-> NaN, n |-> 0, ws |-> 0]

StartsWithHttp(url) == Len(url) >= 1 /\ url[1] = "http"

Row(content, url) == [content |-> content, url |-> url]

DocPool ==
  { Row(T("A", 500, 0), UrlHistory),
    Row(T("B", 50, 0), UrlHistory),
    Row(T("A", 500, 0), UrlMalformed),
    Row(T("C", 1200, 0), UrlRel),
    Row(T("C", 1200, 0), UrlNaN),
    Row(MissingContent, UrlItmo) }

FilePool ==
  { [name |-> "university_info.txt", content |-> T("A", 520, 20)],
    [name |-> "short.txt", content |-> T("D", 410, 20)] }

PieceTexts == { T("x", 300, 0), T("y", 299, 0) }

Queries == {"q1", "q2"}

(* The query of a request.  Queries matter only through sim, where q1 and   *)
(* q2 take every pair of rankings, so one of them stands for the user's.    *)
UserQueries == {"q1"}

RECURSIVE SeqsUpTo(_, _)
SeqsUpTo(S, n) ==
  IF n = 0 THEN {<<>>}
  ELSE LET shorter == SeqsUpTo(S, n - 1)
       IN shorter \cup {Append(q, x) : q \in {r \in shorter : Len(r) = n - 1}, x \in S}

Range(f) == {f[i] : i \in DOMAIN f}

Injective(f) == \A i, j \in DOMAIN f : f[i] = f[j] => i = j

Corpora == {c \in SeqsUpTo(DocPool, MaxRows) : Injective(c)}

RawDirs == {c \in SeqsUpTo(FilePool, MaxRows) : Injective(c)}

Orders(S) == {o \in [1..Cardinality(S) -> S] : Injective(o)}

(* ------------------- process_texts_to_csv (text_processor.py) ---------- *)
UrlMapping(name) ==
  IF name = "university_info.txt" THEN UrlHistory ELSE UrlItmo

ProcessFile(f) == Row(Strip(f.content), UrlMapping(f.name))

ProcessTextsToCsv(files) == [i \in 1..Len(files) |-> ProcessFile(files[i])]

(* ------------------- load_and_process_documents ------------------------ *)
DocLongEnough(row) == PyLen(row.content) >= MinDocLength

FilterDocs(df) == SelectSeq(df, DocLongEnough)

FilterDocsRawNone(df) == df

FilterDocsRaw(df) == SelectSeq(df, DocLongEnough)

(* Document(page_content=row["content"], metadata={"url": row["url"], ...}), *)
(* lines 92-95; row remembers the corpus row the document was made from.    *)
DocumentDefaultUrl(row) == [page_content |-> row.content, url |-> UrlItmo, row |-> row]

Document(row) == [page_content |-> row.content, url |-> row.url, row |-> row]

(* RecursiveCharacterTextSplitter: a text that fits chunk_size comes back   *)
(* as one stripped piece; a longer one is cut into stripped pieces of at    *)
(* most chunk_size characters, and where it is cut is the library's choice. *)
SplitsOf(content) ==
  IF PyLen(content) <= ChunkSize
  THEN {<<Strip(content)>>}
  ELSE {ps \in SeqsUpTo(PieceTexts, MaxPieces) :
          /\ Len(ps) >= 1
          /\ \A i \in 1..Len(ps) : PyLen(ps[i]) <= ChunkSize}

(* One way of cutting for each document of the list.                        *)
RECURSIVE SplitChoices(_)
SplitChoices(documents) ==
  IF documents = <<>> THEN {<<>>}
  ELSE {<<ps>> \o rest : ps \in SplitsOf(Head(documents).page_content),
                         rest \in SplitChoices(Tail(documents))}

PiecesOf(doc, ps) ==
  [j \in 1..Len(ps) |-> [page_content |-> ps[j], url |-> doc.url, parent |-> doc.page_content,
                          row |-> doc.row]]

RECURSIVE SplitDocuments(_, _)
SplitDocuments(documents, sp) ==
  IF documents = <<>> THEN <<>>
  ELSE PiecesOf(Head(documents), sp[1])
         \o SplitDocuments(Tail(documents), [i \in 1..(Len(documents) - 1) |-> sp[i + 1]])

ChunkLongEnough(chunk) == PyLen(chunk.page_content) >= MinChunkLength

FilterChunks(chunks) == SelectSeq(chunks, ChunkLongEnough)

Stored(chunk) == [page_content |-> chunk.page_content, url |-> chunk.url]

StoredAll(chunks) == [i \in 1..Len(chunks) |-> Stored(chunks[i])]

(* Texts that pass both length filters for some document: the texts the     *)
(* embedding model is ever asked to rank.                                   *)
IndexableTexts ==
  {c.page_content :
     c \in UNION {UNION {Range(FilterChunks(PiecesOf(Document(r), ps))) : ps \in SplitsOf(r.content)} :
                    r \in {d \in DocPool \cup {ProcessFile(f) : f \in FilePool} : DocLongEnough(d)}}}

Chroma == "Chroma"

(* What the latest load_and_process_documents call did: whether the        *)
(* persist directory existed, whether Chroma(...) opened it, whether the    *)
(* corpus was read and on which path, len(df) before and after the length   *)
(* filter, and the chunks handed to Chroma.from_documents (each with the    *)
(* content of the document and the corpus row it was split from).           *)
NoLoad ==
  [outcome |-> "none", existed |-> FALSE, opened |-> FALSE, read_corpus |-> FALSE,
   path |-> "none", original_count |-> 0, filtered_count |-> 0, written |-> <<>>,
   error |-> None, missing |-> 0]

NoCall ==
  [status |-> "none", query |-> None, n |-> NoneArg, num_chunks |-> 0, unset |-> FALSE,
   expansion |-> FALSE, expander_calls |-> 0, outcome |-> [kind |-> None, queries |-> <<>>],
   queries |-> <<>>, searches |-> <<>>, all_docs |-> <<>>, error |-> None,
   contexts |-> <<>>, urls |-> <<>>, url_frequency |-> <<>>, max_links |-> 0,
   after_no_corpus |-> FALSE, nan_meta |-> None,
   context_info |-> <<>>, answer |-> None, sources |-> <<>>]

(* The retrieval calls of concurrent requests on one engine: for each, its  *)
(* position and its record.                                                 *)
Slots == 1..MaxCalls

NoneInFlight == [p \in Slots |-> [pc |-> "idle", call |-> NoCall]]

(* Chroma(persist_directory=...) succeeded or raised, line 43.              *)
OpenedNever(existed, openOk) == FALSE

OpenedExisting(existed, openOk) == existed /\ openOk

(* Where the call goes after lines 40-52: it returns at line 48 when the    *)
(* open succeeded; the except clause of line 49 only logs a warning, so a   *)
(* failed open goes on to the corpus at line 54 like a missing directory.   *)
AfterOpenRaising(existed, openOk) ==
  IF OpenedExisting(existed, openOk) THEN "return"
  ELSE IF existed THEN "raise" ELSE "read_corpus"

AfterOpen(existed, openOk) ==
  IF OpenedExisting(existed, openOk) THEN "return" ELSE "read_corpus"

(* Rows on the path taken: pd.read_csv (line 58) or, on FileNotFoundError,  *)
(* process_texts_to_csv (line 76).                                          *)
CorpusRows(csvFile, rawDir) ==
  IF csvFile.exists THEN csvFile.rows ELSE ProcessTextsToCsv(rawDir)

(* The length filter of that path, line 62 or line 79.                      *)
CorpusFrame(csvFile, rawDir) ==
  IF csvFile.exists THEN FilterDocs(csvFile.rows) ELSE FilterDocsRaw(ProcessTextsToCsv(rawDir))

Documents(df) == [i \in 1..Len(df) |-> Document(df[i])]

(* The chunk lists that lines 102-110 can make of the frame: split every    *)
(* document, then drop the chunks shorter than min_chunk_length.            *)
ChunkLists(df) ==
  {FilterChunks(SplitDocuments(Documents(df), sp)) : sp \in SplitChoices(Documents(df))}

CorpusInputs ==
  {<<CsvFile(c), <<>>>> : c \in Corpora} \cup {<<NoCsv, r>> : r \in RawDirs}

BuildOutcomes == {"ok", "client_error", "embed_error"}

NumChunksArgs == {NoneArg} \cup {Given(v) : v \in 0..MaxN}

(* df["content"].str (line 62) on a CSV whose content cells are all empty:  *)
(* the column is read as float64 and the .str accessor raises               *)
(* AttributeError.                                                          *)
StrAccessorRaises(rows) ==
  rows # <<>> /\ \A i \in 1..Len(rows) : rows[i].content = MissingContent

MissingRows(rows) == Cardinality({i \in 1..Len(rows) : rows[i].content = MissingContent})

(* if not data: raise ValueError("No text files found ..."),                *)
(* text_processor.py lines 49-50.                                           *)
NoTextFilesIgnored(data) == FALSE

NoTextFiles(data) == data = <<>>

(* The whole of load_and_process_documents, which OpenAIBot.__init__ calls  *)
(* on a new engine.  csvFile and rawDir are what is on disk when the call   *)
(* runs; openOk and build are the outcomes of Chroma(...) and               *)
(* Chroma.from_documents, the splitter's cuts are chosen inside.            *)
(* from_documents creates the directory before it embeds, so an embedding   *)
(* error leaves the directory behind.                                       *)
LoadAndProcessDocuments ==
  /\ pc = "idle"
  /\ vector_store = None
  /\ load = NoLoad /\ call = NoCall
  /\ call' = NoCall
  /\ UNCHANGED <<sim, pc, inflight>>
  /\ \E openOk \in IF persisted.exists THEN BOOLEAN ELSE {FALSE} :
     LET existed == persisted.exists
         tried == [NoLoad EXCEPT !.existed = existed, !.opened = existed /\ openOk]
     IN IF AfterOpen(existed, openOk) = "return"
        THEN /\ vector_store' = Chroma
             /\ persisted' = persisted
             /\ load' = [tried EXCEPT !.outcome = "loaded"]
        ELSE IF AfterOpen(existed, openOk) = "raise"
        THEN /\ vector_store' = vector_store
             /\ persisted' = persisted
             /\ load' = [tried EXCEPT !.outcome = "raised", !.error = "OpenError"]
        ELSE \E corpus \in CorpusInputs :
          LET csvFile == corpus[1]
              rawDir == corpus[2]
              read == [tried EXCEPT !.read_corpus = TRUE,
                                    !.path = IF csvFile.exists THEN "csv" ELSE "raw",
                                    !.missing = MissingRows(csvFile.rows)]
          IN IF ~csvFile.exists /\ NoTextFiles(ProcessTextsToCsv(rawDir))
             THEN /\ vector_store' = vector_store
                  /\ persisted' = persisted
                  /\ load' = [read EXCEPT !.outcome = "raised", !.error = "ValueError"]
             ELSE IF csvFile.exists /\ StrAccessorRaises(csvFile.rows)
             THEN /\ vector_store' = vector_store
                  /\ persisted' = persisted
                  /\ load' = [read EXCEPT !.outcome = "raised", !.error = "AttributeError",
                                          !.original_count = Len(csvFile.rows)]
             ELSE \E df \in {CorpusFrame(csvFile, rawDir)} :
                  \E chunks \in ChunkLists(df) :
                    LET counted == [read EXCEPT
                                      !.original_count = Len(CorpusRows(csvFile, rawDir)),
                                      !.filtered_count = Len(df)]
                    IN /\ Len(persisted.chunks) + Len(chunks) <= MaxStore
                       /\ \E build \in BuildOutcomes :
                            IF build = "ok"
                            THEN /\ vector_store' = Chroma
                                 /\ persisted' = Dir(persisted.chunks \o StoredAll(chunks))
                                 /\ load' = [counted EXCEPT !.outcome = "built",
                                                            !.written = chunks]
                            ELSE /\ vector_store' = vector_store
                                 /\ persisted' = IF build = "embed_error"
                                                 THEN Dir(persisted.chunks) ELSE persisted
                                 /\ load' = [counted EXCEPT !.outcome = "raised",
                                                            !.error = build]

(* A new process: a fresh RAGEngine() has vector_store = None (line 28);    *)
(* the persist directory stays on disk.                                     *)
Restart ==
  /\ pc = "idle"
  /\ vector_store # None \/ load # NoLoad \/ call # NoCall
  /\ vector_store' = None
  /\ load' = NoLoad
  /\ call' = NoCall
  /\ UNCHANGED <<persisted, sim, pc, inflight>>

(* ------------------- expand_query (query_expander.py) ------------------ *)
ExpandedQueries(queries, search_strategy) ==
  [queries |-> queries, search_strategy |-> search_strategy]

FailureKinds == {"transport_error", "timeout", "unparsable", "parsed_none"}

(* Outcomes of client.beta.chat.completions.parse: it raises, or it returns *)
(* a message whose parsed field is None, or one parsed into ExpandedQueries.*)
ExpanderOutcomes ==
  {[kind |-> k, queries |-> <<>>] : k \in FailureKinds}
    \cup {[kind |-> "parsed", queries |-> qs] : qs \in SeqsUpTo(Queries, MaxQueries)}

FallbackEmpty(original_query) ==
  ExpandedQueries(<<>>, "Using original query due to expansion error")

Fallback(original_query) ==
  ExpandedQueries(<<original_query>>, "Using original query due to expansion error")

(* The value expand_query returns, or the fact that it raised.              *)
Returned(value) == [raised |-> FALSE, value |-> value]

Raised(error) == [raised |-> TRUE, value |-> error]

ExpandQueryPropagating(original_query, outcome) ==
  IF outcome.kind = "parsed"
  THEN Returned(ExpandedQueries(outcome.queries, "strategy"))
  ELSE Raised(outcome.kind)

ExpandQuery(original_query, outcome) ==
  IF outcome.kind = "parsed"
  THEN Returned(ExpandedQueries(outcome.queries, "strategy"))
  ELSE Returned(Fallback(original_query))

(* ------------------- get_relevant_context ------------------------------ *)
Min(a, b) == IF a <= b THEN a ELSE b

Take(s, k) == SubSeq(s, 1, Min(k, Len(s)))

(* num_chunks = num_chunks or config.rag.num_chunks, line 136              *)
NumChunks(n) == IF ~n.given \/ n.value = 0 THEN DefaultNumChunks ELSE n.value

(* Chroma.similarity_search(q, k): the k nearest chunks.  The distance is a *)
(* function of the query and the chunk text (sim[q] lists the texts from    *)
(* nearest to farthest); equal texts keep their order in the collection.    *)
RECURSIVE Ranked(_, _, _)
Ranked(store, order, r) ==
  IF r > Len(order) THEN <<>>
  ELSE LET Same(c) == c.page_content = order[r]
       IN SelectSeq(store, Same) \o Ranked(store, order, r + 1)

SimilaritySearch(store, q, k) == Take(Ranked(store, sim[q], 1), k)

(* list({doc.page_content: doc for doc in all_docs}.values()), line 161:    *)
(* a dict keeps a key at the position of its first insertion and keeps the  *)
(* value of its last insertion.                                             *)
RECURSIVE DictKeysLast(_, _)
DictKeysLast(docs, seen) ==
  IF docs = <<>> THEN <<>>
  ELSE IF \E j \in 2..Len(docs) : docs[j].page_content = Head(docs).page_content
       THEN DictKeysLast(Tail(docs), seen)
       ELSE <<Head(docs).page_content>> \o DictKeysLast(Tail(docs), seen)

RECURSIVE DictKeys(_, _)
DictKeys(docs, seen) ==
  IF docs = <<>> THEN <<>>
  ELSE IF Head(docs).page_content \in seen
       THEN DictKeys(Tail(docs), seen)
       ELSE <<Head(docs).page_content>>
              \o DictKeys(Tail(docs), seen \cup {Head(docs).page_content})

LastWith(docs, text) ==
  docs[CHOOSE i \in 1..Len(docs) :
         /\ docs[i].page_content = text
         /\ \A j \in (i + 1)..Len(docs) : docs[j].page_content # text]

(* A dict keyed by text and url together would keep both of two chunks     *)
(* that share a text.                                                       *)
UniqueDocsByUrl(all_docs) ==
  LET firsts == {i \in 1..Len(all_docs) : \A j \in 1..(i - 1) : all_docs[j] # all_docs[i]}
      Nth(k) == CHOOSE i \in firsts : Cardinality({j \in firsts : j < i}) = k - 1
  IN [k \in 1..Cardinality(firsts) |-> all_docs[Nth(k)]]

UniqueDocs(all_docs) ==
  LET keys == DictKeys(all_docs, {})
  IN [i \in 1..Len(keys) |-> LastWith(all_docs, keys[i])]

(* unique_docs[:num_chunks], line 162: the first num_chunks, not the last.  *)
TopDocsLast(unique_docs, num_chunks) ==
  SubSeq(unique_docs, Len(unique_docs) - Min(num_chunks, Len(unique_docs)) + 1, Len(unique_docs))

TopDocs(unique_docs, num_chunks) == Take(unique_docs, num_chunks)

Contexts(top_docs) == [i \in 1..Len(top_docs) |-> top_docs[i].page_content]

(* What the vector store hands back for a url that was nan when the chunk  *)
(* was written: the float, or no "url" key at all (a store that keeps nan   *)
(* as NULL).                                                                *)
NanMetas == {"float", "absent"}

HasNaN(docs) == \E i \in 1..Len(docs) : docs[i].url = UrlNaN

(* doc.metadata.get("url", "https://itmo.ru"), line 172                     *)
MetadataGet(doc, nan_meta) ==
  IF doc.url = UrlNaN /\ nan_meta = "absent" THEN UrlItmo ELSE doc.url

Metadata(docs, nan_meta) ==
  [i \in 1..Len(docs) |-> [page_content |-> docs[i].page_content,
                            url |-> MetadataGet(docs[i], nan_meta)]]

(* url.startswith on a value that is not a str raises AttributeError,       *)
(* line 173.                                                                *)
StartsWithRaises(docs) == \E i \in 1..Len(docs) : ~IsStr(docs[i].url)

(* lines 170-174: an insertion-ordered dict url -> count                    *)
Bump(freq, url) ==
  IF \E i \in 1..Len(freq) : freq[i].url = url
  THEN [i \in 1..Len(freq) |->
          IF freq[i].url = url THEN [url |-> url, count |-> freq[i].count + 1] ELSE freq[i]]
  ELSE Append(freq, [url |-> url, count |-> 1])

RECURSIVE UrlFrequencyUnique(_, _)
UrlFrequencyUnique(docs, freq) ==
  IF docs = <<>> THEN freq
  ELSE UrlFrequencyUnique(Tail(docs),
         IF /\ StartsWithHttp(Head(docs).url)
            /\ \A j \in 2..Len(docs) : docs[j].page_content # Head(docs).page_content
         THEN Bump(freq, Head(docs).url) ELSE freq)

RECURSIVE UrlFrequency(_, _)
UrlFrequency(docs, freq) ==
  IF docs = <<>> THEN freq
  ELSE UrlFrequency(Tail(docs),
                    IF StartsWithHttp(Head(docs).url) THEN Bump(freq, Head(docs).url) ELSE freq)

(* sorted(items, key=count, reverse=True), line 177: descending by count,   *)
(* stable (items of equal count keep their order).                          *)
InsertDescUnstable(sorted, item) ==
  LET before == Cardinality({i \in 1..Len(sorted) : sorted[i].count > item.count})
  IN SubSeq(sorted, 1, before) \o <<item>> \o SubSeq(sorted, before + 1, Len(sorted))

InsertDesc(sorted, item) ==
  LET before == Cardinality({i \in 1..Len(sorted) : sorted[i].count >= item.count})
  IN SubSeq(sorted, 1, before) \o <<item>> \o SubSeq(sorted, before + 1, Len(sorted))

RECURSIVE SortedByFrequency(_, _)
SortedByFrequency(items, sorted) ==
  IF items = <<>> THEN sorted
  ELSE SortedByFrequency(Tail(items), InsertDesc(sorted, Head(items)))

TopUrlsOneMore(sorted, max_links) == Take(sorted, max_links + 1)

TopUrls(sorted, max_links) == Take(sorted, max_links)

Urls(top) == [i \in 1..Len(top) |-> top[i].url]

(* Whether the installed langchain_community Chroma defines __len__ (the    *)
(* number of documents in the collection): the releases differ.             *)
StoreHasLen == BOOLEAN

(* if not self.vector_store: raise ValueError, lines 139-142.  "not" is     *)
(* Python truthiness: None is false, and so is an object whose __len__      *)
(* returns 0, that is a Chroma store over an empty collection when the      *)
(* class defines __len__.                                                   *)
PreconditionUnchecked(store, stored, has_len) == FALSE

PreconditionFails(store, stored, has_len) ==
  store = None \/ (has_len /\ stored = <<>>)

(* get_relevant_context assigns no attribute of the engine and calls only  *)
(* similarity_search on the store, which reads the collection (lines        *)
(* 130-182).                                                                *)
IndexTouched == persisted' = Dir(<<>>) /\ UNCHANGED <<vector_store, sim>>

IndexUntouched == UNCHANGED <<persisted, vector_store, sim>>

(* The engine's load found neither a persisted index nor a corpus.          *)
LoadFoundNothing(l) ==
  l.read_corpus /\ ~l.existed /\ l.path = "raw" /\ l.original_count = 0

(* Entry of get_relevant_context up to the branch on                        *)
(* config.rag.use_query_expansion (lines 136-145): the position and the     *)
(* record of the call after it.  after_no_corpus remembers across the calls *)
(* of one engine that its load found nothing.                               *)
Entered(prev, query, n, use_query_expansion, has_len) ==
  LET entered == [NoCall EXCEPT !.query = query, !.n = n, !.num_chunks = NumChunks(n),
                                !.unset = (vector_store = None),
                                !.expansion = use_query_expansion,
                                !.after_no_corpus =
                                   LoadFoundNothing(load) \/ prev.after_no_corpus]
  IN IF PreconditionFails(vector_store, persisted.chunks, has_len)
     THEN [pc |-> "idle",
           call |-> [entered EXCEPT !.status = "raised", !.error = "ValueError"]]
     ELSE [pc |-> IF use_query_expansion THEN "expand" ELSE "search",
           call |-> [entered EXCEPT !.status = "running",
                                    !.queries = IF use_query_expansion THEN <<>> ELSE <<query>>]]

GetRelevantContext ==
  /\ pc = "idle"
  /\ call.status = "none"
  /\ load' = NoLoad
  /\ IndexUntouched
  /\ UNCHANGED inflight
  /\ \E query \in UserQueries, n \in NumChunksArgs, use_query_expansion \in BOOLEAN,
        has_len \in StoreHasLen :
       \E next \in {Entered(call, query, n, use_query_expansion, has_len)} :
         pc' = next.pc /\ call' = next.call

(* self.query_expander.expand_query(query), line 147                        *)
Expanded(c, outcome) ==
  LET expanded == ExpandQuery(c.query, outcome)
      called == [c EXCEPT !.expander_calls = @ + 1, !.outcome = outcome]
  IN IF expanded.raised
     THEN [pc |-> "idle",
           call |-> [called EXCEPT !.status = "raised", !.error = expanded.value]]
     ELSE [pc |-> IF expanded.value.queries = <<>> THEN "finish" ELSE "search",
           call |-> [called EXCEPT !.queries = expanded.value.queries]]

ExpandStep ==
  /\ pc = "expand"
  /\ IndexUntouched
  /\ UNCHANGED <<load, inflight>>
  /\ \E outcome \in ExpanderOutcomes :
       \E next \in {Expanded(call, outcome)} :
         pc' = next.pc /\ call' = next.call

(* The query of the next similarity search: the loop of line 151 walks      *)
(* expanded.queries from the first to the last.                             *)
NextQueryReversed(c) == c.queries[Len(c.queries) - Len(c.searches)]

NextQuery(c) == c.queries[Len(c.searches) + 1]

(* The search just made: similarity_search(query, k=num_chunks), lines 152  *)
(* and 158.                                                                 *)
Search(c) == [query |-> NextQuery(c), k |-> c.num_chunks]

AfterSearch(c) == IF Len(c.searches) + 1 = Len(c.queries) THEN "finish" ELSE "search"

(* similarity_search raised (the embedding call of embeddings.py re-raises, *)
(* the store may raise too): nothing in get_relevant_context catches it.    *)
SearchErrorSkipped(c) ==
  [pc |-> AfterSearch(c),
   call |-> [c EXCEPT !.searches = Append(@, Search(c)), !.error = "EmbeddingError"]]

SearchError(c) ==
  [pc |-> "idle",
   call |-> [c EXCEPT !.searches = Append(@, Search(c)), !.status = "raised",
                      !.error = "EmbeddingError"]]

(* all_docs is a local of the call (lines 148 and 158): what the call       *)
(* extends is its own list, whatever the other calls in flight gathered.    *)
AllDocsShared(mine, theirs) == theirs \o mine

AllDocs(mine, theirs) == mine

(* One iteration of the loop of lines 151-153, or the single search of      *)
(* lines 157-158; searchOk says whether similarity_search returned, theirs  *)
(* is what the other calls in flight have gathered.                         *)
Searched(c, theirs, searchOk) ==
  IF vector_store = None
  THEN [pc |-> "idle", call |-> [c EXCEPT !.status = "raised", !.error = "AttributeError"]]
  ELSE IF ~searchOk
  THEN SearchError(c)
  ELSE [pc |-> AfterSearch(c),
        call |-> [c EXCEPT
                    !.searches = Append(@, Search(c)),
                    !.all_docs = AllDocs(@, theirs)
                                   \o SimilaritySearch(persisted.chunks, NextQuery(c),
                                                       c.num_chunks)]]

SearchStep ==
  /\ pc = "search"
  /\ IndexUntouched
  /\ UNCHANGED <<load, inflight>>
  /\ \E searchOk \in BOOLEAN :
       \E next \in {Searched(call, <<>>, searchOk)} :
         pc' = next.pc /\ call' = next.call

(* lines 160-182; max_links is config.rag.max_links as read at line 178     *)
Finished(c, max_links, nan_meta) ==
  LET top_docs == TopDocs(UniqueDocs(c.all_docs), c.num_chunks)
      pooled == Metadata(c.all_docs, nan_meta)
      url_frequency == UrlFrequency(pooled, <<>>)
      urls == TopUrls(SortedByFrequency(url_frequency, <<>>), max_links)
  IN IF StartsWithRaises(pooled)
     THEN [pc |-> "idle",
           call |-> [c EXCEPT !.status = "raised", !.error = "AttributeError",
                              !.max_links = max_links, !.nan_meta = nan_meta]]
     ELSE [pc |-> "idle",
           call |-> [c EXCEPT !.status = "returned", !.contexts = Contexts(top_docs),
                              !.urls = Urls(urls), !.url_frequency = url_frequency,
                              !.max_links = max_links, !.nan_meta = nan_meta]]

NanMetasOf(docs) == IF HasNaN(docs) THEN NanMetas ELSE {None}

(* The call is over (return at line 182, or a raise): its locals are gone,  *)
(* the engine is as the call left it.                                       *)
CallOver ==
  /\ pc = "idle"
  /\ call.status \in {"returned", "raised"}
  /\ call' = [NoCall EXCEPT !.after_no_corpus = call.after_no_corpus]
  /\ IndexUntouched
  /\ UNCHANGED <<load, pc, inflight>>

FinishStep ==
  /\ pc = "finish"
  /\ IndexUntouched
  /\ UNCHANGED <<load, inflight>>
  /\ \E max_links \in 0..MaxLinksBound, nan_meta \in NanMetasOf(call.all_docs) :
       \E next \in {Finished(call, max_links, nan_meta)} :
         pc' = next.pc /\ call' = next.call

(* ------------------------------ behaviours ----------------------------- *)
Init ==
  /\ persisted = NoDir
  /\ vector_store = None
  /\ sim \in [Queries -> Orders(IndexableTexts)]
  /\ load = NoLoad
  /\ pc = "idle"
  /\ call = NoCall
  /\ inflight = NoneInFlight

Next ==
  \/ LoadAndProcessDocuments
  \/ Restart
  \/ GetRelevantContext
  \/ ExpandStep
  \/ SearchStep
  \/ FinishStep
  \/ CallOver

Spec == Init /\ [][Next]_vars

(* --------------- concurrent requests on a started service -------------- *)
(* main.py builds the bot once (line 32), which loads the index; the        *)
(* requests that follow call get_relevant_context on that one engine.  The  *)
(* started service here has opened an index persisted by an earlier run     *)
(* over ConcurrentCorpus.                                                   *)
ConcurrentCorpus ==
  <<Row(T("A", 500, 0), UrlHistory), Row(T("C", 1200, 0), UrlRel)>>

ConcurrentIndexes ==
  {d \in {Dir(StoredAll(FilterChunks(SplitDocuments(Documents(FilterDocs(ConcurrentCorpus)), sp)))) :
            sp \in SplitChoices(Documents(FilterDocs(ConcurrentCorpus)))} :
     Len(d.chunks) >= 2 /\ Len(d.chunks) <= MaxStore}

ServiceStarted ==
  /\ persisted \in ConcurrentIndexes
  /\ vector_store = Chroma
  /\ load = [NoLoad EXCEPT !.outcome = "loaded", !.existed = TRUE, !.opened = TRUE]
  /\ pc = "idle"
  /\ call = NoCall
  /\ inflight = NoneInFlight

InitConcurrent ==
  /\ sim \in [Queries -> Orders(IndexableTexts)]
  /\ ServiceStarted

ConcurrentNumChunksArgs == {Given(1)}

ConcurrentOutcomes ==
  {[kind |-> "timeout", queries |-> <<>>], [kind |-> "parsed", queries |-> <<"q1", "q2">>]}

(* What the calls in flight other than p have gathered so far.              *)
RECURSIVE TheirDocs(_, _)
TheirDocs(p, q) ==
  IF q > MaxCalls THEN <<>>
  ELSE (IF q = p THEN <<>> ELSE inflight[q].call.all_docs) \o TheirDocs(p, q + 1)

(* The step of call p: its own position and record move, nothing else.      *)
Moves(p, next) ==
  /\ inflight' = [inflight EXCEPT ![p] = [pc |-> next.pc, call |-> next.call]]
  /\ IndexUntouched
  /\ UNCHANGED <<load, pc, call>>

CallEnters(p) ==
  /\ inflight[p].pc = "idle"
  /\ \E query \in Queries, n \in ConcurrentNumChunksArgs, use_query_expansion \in BOOLEAN,
        has_len \in StoreHasLen :
       Moves(p, Entered(NoCall, query, n, use_query_expansion, has_len))

CallExpands(p) ==
  /\ inflight[p].pc = "expand"
  /\ \E outcome \in ConcurrentOutcomes : Moves(p, Expanded(inflight[p].call, outcome))

CallSearches(p) ==
  /\ inflight[p].pc = "search"
  /\ \E searchOk \in BOOLEAN : Moves(p, Searched(inflight[p].call, TheirDocs(p, 1), searchOk))

CallFinishes(p) ==
  /\ inflight[p].pc = "finish"
  /\ \E nan_meta \in NanMetasOf(inflight[p].call.all_docs) :
       Moves(p, Finished(inflight[p].call, MaxLinksBound, nan_meta))

NextConcurrent ==
  \E p \in Slots :
    \/ CallEnters(p)
    \/ CallExpands(p)
    \/ CallSearches(p)
    \/ CallFinishes(p)

SpecConcurrent == InitConcurrent /\ [][NextConcurrent]_vars

(* ------------- the service: main.py and OpenAIBot (openai_bot.py) ------ *)
(* The bot exists once OpenAIBot() has returned (main.py line 32), that is  *)
(* once the load it runs has returned; when the constructor raises, the     *)
(* import of main.py fails and there is no app to serve a request.          *)
BotConstructed(l) == l.outcome \in {"loaded", "built"}

(* OpenAIBot.__init__: without OPENAI_API_KEY it raises before any engine   *)
(* exists (lines 18-21); otherwise it makes the engine and loads (lines     *)
(* 33-35), and re-raises what the load raises (lines 38-42).                *)
BotInit ==
  \/ /\ pc = "idle"
     /\ vector_store = None
     /\ load = NoLoad /\ call = NoCall
     /\ load' = [NoLoad EXCEPT !.outcome = "raised", !.error = "OPENAI_API_KEY not found"]
     /\ UNCHANGED <<persisted, vector_store, sim, pc, call, inflight>>
  \/ LoadAndProcessDocuments

(* What a serving process still holds of its start-up load: that it made   *)
(* the bot, by opening or by building (the counts and the chunk list were   *)
(* locals of the load).                                                     *)
Serving(l) == [NoLoad EXCEPT !.outcome = l.outcome]

(* predict (main.py lines 39-47) calls bot.generate_response, which calls   *)
(* get_relevant_context(query, num_chunks=5) (openai_bot.py line 60).       *)
Predict ==
  /\ pc = "idle"
  /\ call.status = "none"
  /\ BotConstructed(load)
  /\ load' = Serving(load)
  /\ IndexUntouched
  /\ UNCHANGED inflight
  /\ \E query \in UserQueries, use_query_expansion \in BOOLEAN, has_len \in StoreHasLen :
       \E next \in {Entered(call, query, Given(BotNumChunks), use_query_expansion, has_len)} :
         pc' = next.pc /\ call' = next.call

(* openai_bot.py lines 67-72: the i-th context gets the i-th URL, or        *)
(* "unknown" past the end of urls.                                          *)
ContextInfo(context, urls) ==
  [i \in 1..Len(context) |->
     [text |-> context[i], source_url |-> IF i <= Len(urls) THEN urls[i] ELSE Unknown]]

(* client.beta.chat.completions.parse (lines 88-98): an answer, no parsed   *)
(* object (ValueError), or an API error.                                    *)
CompletionOutcomes == {"answered", "ValueError", "ApiError"}

(* generate_response after the retrieval returned, lines 61-109.            *)
GenerateResponse ==
  /\ pc = "idle"
  /\ call.status = "returned"
  /\ call.answer = None
  /\ IndexUntouched
  /\ UNCHANGED <<load, pc, inflight>>
  /\ \E completion \in CompletionOutcomes :
       call' = [call EXCEPT !.context_info = ContextInfo(call.contexts, call.urls),
                            !.answer = completion,
                            !.sources = IF completion = "answered" THEN call.urls ELSE <<>>]

(* predict returns the response or turns the exception into an HTTP error  *)
(* (main.py lines 49-58); the request is over.                              *)
PredictOver ==
  /\ pc = "idle"
  /\ call.status = "raised" \/ call.answer # None
  /\ call' = NoCall
  /\ IndexUntouched
  /\ UNCHANGED <<load, pc, inflight>>

NextService ==
  \/ BotInit
  \/ Restart
  \/ Predict
  \/ ExpandStep
  \/ SearchStep
  \/ FinishStep
  \/ GenerateResponse
  \/ PredictOver

SpecService == Init /\ [][NextService]_vars

TypeOK ==
  /\ pc \in {"idle", "expand", "search", "finish"}
  /\ vector_store \in {None, Chroma}
  /\ vector_store = Chroma => persisted.exists
  /\ Len(persisted.chunks) <= MaxStore
  /\ \A i \in 1..Len(persisted.chunks) : persisted.chunks[i].page_content \in IndexableTexts

(* ------------------------------ properties ----------------------------- *)
FirstTextPos(docs, text) ==
  CHOOSE i \in 1..Len(docs) :
    /\ docs[i].page_content = text
    /\ \A j \in 1..(i - 1) : docs[j].page_content # text

(* The url of a pooled document is the one metadata.get gave the call.      *)
UrlOf(doc) == MetadataGet(doc, call.nan_meta)

Occurrences(docs, url) == Cardinality({i \in 1..Len(docs) : UrlOf(docs[i]) = url})

FirstUrlPos(docs, url) ==
  CHOOSE i \in 1..Len(docs) :
    /\ UrlOf(docs[i]) = url
    /\ \A j \in 1..(i - 1) : UrlOf(docs[j]) # url

DistinctTexts(docs) == {docs[i].page_content : i \in 1..Len(docs)}

(* C1: the contexts of a returned call are texts of the pooled list, each   *)
(* distinct text at most once, ordered by first occurrence in the pool.     *)
C1_DedupFirstSeen ==
  call.status = "returned" =>
    /\ \A i \in 1..Len(call.contexts) : call.contexts[i] \in DistinctTexts(call.all_docs)
    /\ \A i, j \in 1..Len(call.contexts) :
         i < j => /\ call.contexts[i] # call.contexts[j]
                  /\ FirstTextPos(call.all_docs, call.contexts[i])
                       < FirstTextPos(call.all_docs, call.contexts[j])

(* Two expanded queries returned overlapping texts in different orders.     *)
C1_Witness ==
  /\ call.status = "returned"
  /\ Len(call.searches) >= 2
  /\ Len(call.contexts) >= 2
  /\ Len(call.all_docs) >= 4
  /\ call.all_docs[1].page_content # call.all_docs[3].page_content

(* C2: the URLs of a returned call are in descending order of their number  *)
(* of occurrences in the raw pooled list, and URLs with the same number of  *)
(* occurrences are in the order of their first appearance in the pool.      *)
C2_UrlsRanked ==
  call.status = "returned" =>
    \A i, j \in 1..Len(call.urls) :
      i < j =>
        \/ Occurrences(call.all_docs, call.urls[i]) > Occurrences(call.all_docs, call.urls[j])
        \/ /\ Occurrences(call.all_docs, call.urls[i]) = Occurrences(call.all_docs, call.urls[j])
           /\ FirstUrlPos(call.all_docs, call.urls[i]) < FirstUrlPos(call.all_docs, call.urls[j])

(* Two URLs tie and keep their pool order.                                  *)
C2_Witness ==
  /\ call.status = "returned"
  /\ Len(call.urls) >= 2
  /\ Occurrences(call.all_docs, call.urls[1]) = Occurrences(call.all_docs, call.urls[2])

(* The deduplicated pooled list: the distinct texts of the pool in the      *)
(* order of their first occurrence.                                         *)
Deduplicated(docs) ==
  LET firsts == {i \in 1..Len(docs) : \A j \in 1..(i - 1) : docs[j].page_content # docs[i].page_content}
      Nth(k) == CHOOSE i \in firsts : Cardinality({j \in firsts : j < i}) = k - 1
  IN [k \in 1..Cardinality(firsts) |-> docs[Nth(k)].page_content]

(* C3: with an explicitly passed n >= 0, contexts is exactly the first n    *)
(* entries of the deduplicated pooled list, so it has min(n, number of      *)
(* distinct texts) entries and never more than n.                           *)
C3_TruncatedToN ==
  (call.status = "returned" /\ call.n.given) =>
    /\ call.contexts = Take(Deduplicated(call.all_docs), call.n.value)
    /\ Len(call.contexts) = Min(call.n.value, Cardinality(DistinctTexts(call.all_docs)))
    /\ Len(call.contexts) <= call.n.value

(* C4: the URLs of a returned call are at most max_links and pairwise       *)
(* distinct.                                                                *)
C4_UrlsBounded ==
  call.status = "returned" =>
    /\ Len(call.urls) <= call.max_links
    /\ \A i, j \in 1..Len(call.urls) : call.urls[i] = call.urls[j] => i = j

(* More distinct absolute URLs were pooled than max_links lets through.     *)
C4_Witness ==
  /\ call.status = "returned"
  /\ call.max_links >= 1
  /\ Len(call.url_frequency) > call.max_links
  /\ Len(call.urls) = call.max_links

(* C5: the count that ranks a URL is the number of entries of the raw       *)
(* pooled list carrying that URL, whatever deduplication and truncation     *)
(* made of contexts.                                                        *)
C5_CountsOverRawPool ==
  call.status = "returned" =>
    \A i \in 1..Len(call.url_frequency) :
      call.url_frequency[i].count = Occurrences(call.all_docs, call.url_frequency[i].url)

(* Two expanded queries returned the same chunk: one context, count 2.      *)
C5_Witness ==
  /\ call.status = "returned"
  /\ Len(call.searches) = 2
  /\ Len(call.all_docs) = 2
  /\ call.all_docs[1] = call.all_docs[2]
  /\ Len(call.contexts) = 1
  /\ Len(call.url_frequency) = 1
  /\ call.url_frequency[1].count = 2

(* What the call returns with use_query_expansion = False: one search, on   *)
(* the original query (lines 155-182).                                      *)
WithoutExpansion(query, n, max_links) ==
  LET docs == SimilaritySearch(persisted.chunks, query, NumChunks(n))
      pooled == Metadata(docs, call.nan_meta)
  IN <<Contexts(TopDocs(UniqueDocs(docs), NumChunks(n))),
       Urls(TopUrls(SortedByFrequency(UrlFrequency(pooled, <<>>), <<>>), max_links))>>

(* C6: when the expansion capability fails, a call with expansion enabled   *)
(* returns the (contexts, sourceUrls) that the same call returns with       *)
(* expansion disabled.                                                      *)
C6_FailedExpansionIsNoExpansion ==
  (call.status = "returned" /\ call.expansion /\ call.outcome.kind \in FailureKinds) =>
    <<call.contexts, call.urls>> = WithoutExpansion(call.query, call.n, call.max_links)

(* A failed expansion on an index that has something to return.             *)
C6_Witness ==
  /\ call.status = "returned"
  /\ call.expansion
  /\ call.outcome.kind \in FailureKinds
  /\ Len(call.contexts) >= 2
  /\ Len(call.urls) >= 1

(* C7: whatever way the structured-generation call fails, expand_query is   *)
(* called once, raises nothing, and yields exactly [original_query]; the    *)
(* retrieval then searches that single query; the call raises only what    *)
(* the search or the URL count raises.                                      *)
C7_FallbackToOriginalQuery ==
  call.outcome.kind \in FailureKinds =>
    /\ call.expander_calls = 1
    /\ call.status = "raised" => call.error \in {"EmbeddingError", "AttributeError"}
    /\ call.queries = <<call.query>>
    /\ pc \in {"search", "finish", "idle"}
    /\ pc = "idle" => (Len(call.searches) = 1 /\ call.searches[1].query = call.query)

(* The parse call returned no parsed object and retrieval went on.          *)
C7_Witness ==
  /\ call.outcome.kind = "parsed_none"
  /\ pc = "finish"
  /\ call.queries = <<call.query>>
  /\ Len(call.searches) = 1

(* C8: a call made while vector_store is unset raises ValueError before any *)
(* expansion or similarity search, and returns nothing.                     *)
C8_PreconditionFirst ==
  call.unset =>
    /\ call.status = "raised"
    /\ call.error = "ValueError"
    /\ call.expander_calls = 0
    /\ call.searches = <<>>
    /\ call.contexts = <<>> /\ call.urls = <<>>
    /\ pc = "idle"

(* A call on a fresh engine while a persisted index is on disk.             *)
C8_Witness ==
  /\ call.unset
  /\ call.status = "raised"
  /\ vector_store = None
  /\ persisted.exists /\ persisted.chunks # <<>>

(* C9 as stated: whenever the persist directory exists when the call        *)
(* starts, the call loads it and neither reads the corpus nor writes.       *)
C9_ExistingAlwaysLoaded ==
  (load.outcome # "none" /\ load.existed) =>
    /\ load.outcome = "loaded"
    /\ ~load.read_corpus
    /\ load.written = <<>>

(* C9 amended: whenever the persist directory exists when the call starts   *)
(* and Chroma(...) opens it, the call sets vector_store and returns with    *)
(* the corpus unread and the persisted index unchanged.                     *)
C9_OpenedExistingNoWrites ==
  [][(load'.outcome # "none" /\ load'.existed /\ load'.opened) =>
       /\ load'.outcome = "loaded"
       /\ ~load'.read_corpus
       /\ load'.written = <<>>
       /\ persisted' = persisted
       /\ vector_store' = Chroma]_vars

(* A second run found and opened the index the first run persisted.         *)
C9_Witness ==
  /\ load.outcome = "loaded"
  /\ load.existed /\ load.opened
  /\ persisted.chunks # <<>>
  /\ vector_store = Chroma

(* C10: every chunk handed to the index is at least min_chunk_length long   *)
(* and was split from a document at least min_doc_length long, on the CSV   *)
(* path and on the raw-text path; so is every chunk the index holds.        *)
C10_LengthFilters ==
  /\ \A i \in 1..Len(load.written) :
       /\ PyLen(load.written[i].page_content) >= MinChunkLength
       /\ PyLen(load.written[i].parent) >= MinDocLength
  /\ \A i \in 1..Len(persisted.chunks) :
       PyLen(persisted.chunks[i].page_content) >= MinChunkLength

(* The raw-text path dropped a short document and indexed the other.        *)
C10_Witness ==
  /\ load.outcome = "built"
  /\ load.path = "raw"
  /\ load.filtered_count < load.original_count
  /\ load.written # <<>>

(* C11: a load that finds neither a persisted index nor a corpus (no CSV,   *)
(* no raw text files) raises ValueError, creates no index and leaves        *)
(* vector_store unset; every later retrieval call on that engine fails     *)
(* with the precondition ValueError.                                        *)
C11_NoCorpusNoIndex ==
  /\ LoadFoundNothing(load) =>
       /\ load.outcome = "raised" /\ load.error = "ValueError"
       /\ load.written = <<>>
       /\ ~persisted.exists
       /\ vector_store = None
  /\ call.after_no_corpus =>
       /\ ~persisted.exists
       /\ vector_store = None
       /\ call.status # "none" =>
            /\ call.status = "raised" /\ call.error = "ValueError"
            /\ call.contexts = <<>> /\ call.urls = <<>>

(* A retrieval call made after such a load.                                 *)
C11_Witness ==
  /\ call.after_no_corpus
  /\ call.status = "raised"
  /\ load = NoLoad

(* The URLs of the model that are absolute (scheme://host...).              *)
AbsoluteUrls == {UrlItmo, UrlHistory}

(* C12 as stated: every URL of a returned call is the syntactically         *)
(* absolute URL of a pooled chunk, and every count is the number of pooled  *)
(* chunks that carry that absolute URL: a chunk whose URL is relative,      *)
(* malformed or missing adds to no count and adds no URL.                   *)
C12_OnlyAbsoluteCounted ==
  call.status = "returned" =>
    /\ \A i \in 1..Len(call.urls) :
         /\ call.urls[i] \in AbsoluteUrls
         /\ \E j \in 1..Len(call.all_docs) : call.all_docs[j].url = call.urls[i]
    /\ \A i \in 1..Len(call.url_frequency) :
         /\ call.url_frequency[i].url \in AbsoluteUrls
         /\ call.url_frequency[i].count =
              Cardinality({j \in 1..Len(call.all_docs) :
                             call.all_docs[j].url = call.url_frequency[i].url})

(* C13: when a similarity search (its embedding included) fails for any     *)
(* query of the call, the call raises that failure and returns nothing,     *)
(* whatever the earlier searches of the call had gathered.                  *)
C13_SearchFailurePropagates ==
  call.error = "EmbeddingError" =>
    /\ call.status = "raised"
    /\ pc = "idle"
    /\ call.contexts = <<>> /\ call.urls = <<>>
    /\ call.searches # <<>>

(* The second search of a call fails after the first returned chunks.       *)
C13_Witness ==
  /\ call.error = "EmbeddingError"
  /\ call.status = "raised"
  /\ Len(call.searches) = 2
  /\ call.all_docs # <<>>

(* C14 as stated: a call on a set vector_store whose searches all return    *)
(* ends by returning a (contexts, sourceUrls) pair: it raises only the      *)
(* precondition error or a search failure.                                  *)
C14_OnlyKnownErrors ==
  call.status = "raised" => call.error \in {"ValueError", "EmbeddingError"}

(* C16 as stated: the ExpandedQueries that expand_query returns holds       *)
(* between 1 and 3 queries, whether it was parsed from the model's output   *)
(* or is the fallback.                                                      *)
C16_OneToThreeQueries ==
  (call.expander_calls = 1 /\ call.status # "raised") =>
    (Len(call.queries) >= 1 /\ Len(call.queries) <= 3)

(* The call got past the precondition of lines 139-142.                    *)
PastPrecondition(c) == c.status # "none" /\ ~(c.status = "raised" /\ c.error = "ValueError")

(* External calls still to be made by the running call, plus its last step. *)
Remaining ==
  CASE pc = "expand" -> MaxQueries + 2
    [] pc = "search" -> (Len(call.queries) - Len(call.searches)) + 1
    [] pc = "finish" -> 1
    [] OTHER -> 0

(* The queries the call has to search, in order.                            *)
QueriesToSearch ==
  IF call.expansion THEN ExpandQuery(call.query, call.outcome).value.queries
  ELSE <<call.query>>

(* The running call can take its next step: the guards of ExpandStep,       *)
(* SearchStep and FinishStep.                                               *)
CanStep ==
  \/ pc = "expand"
  \/ pc = "search" /\ Len(call.searches) < Len(call.queries)
  \/ pc = "finish"

(* C17: the external calls of one retrieval call are made one after the     *)
(* other: with expansion disabled the expander is never called and the one  *)
(* search is on the original query; with expansion enabled expand_query is  *)
(* called exactly once, before any search, and then each returned query is  *)
(* searched exactly once, in the returned order; every search has           *)
(* k = num_chunks; and the call ends once these calls have returned (each   *)
(* step brings it nearer to its end and a step is always possible).         *)
C17_ExternalCallsInSequence ==
  /\ [](/\ ~call.expansion => call.expander_calls = 0
        /\ (call.expansion /\ pc = "expand") =>
             (call.expander_calls = 0 /\ call.searches = <<>>)
        /\ (call.expansion /\ PastPrecondition(call) /\ pc # "expand") =>
             call.expander_calls = 1
        /\ (PastPrecondition(call) /\ pc # "expand") =>
             /\ Len(call.searches) <= Len(QueriesToSearch)
             /\ \A i \in 1..Len(call.searches) :
                  call.searches[i] = [query |-> QueriesToSearch[i], k |-> call.num_chunks]
        /\ call.status = "returned" => Len(call.searches) = Len(QueriesToSearch)
        /\ pc # "idle" => CanStep)
  /\ [][pc # "idle" =>
          /\ Remaining' < Remaining
          /\ (call'.expander_calls - call.expander_calls)
               + (Len(call'.searches) - Len(call.searches)) <= 1]_vars

(* Three expanded queries were searched in the order they were returned.    *)
C17_Witness ==
  /\ call.status = "returned"
  /\ call.expansion
  /\ call.expander_calls = 1
  /\ Len(call.searches) = 3
  /\ call.searches[1].query # call.searches[2].query

(* C18: every chunk a load writes to the index carries as its url the url   *)
(* of the corpus row it was split from, in the call's log and on disk.      *)
C18_ChunkKeepsRowUrl ==
  load.outcome = "built" =>
    /\ Len(persisted.chunks) >= Len(load.written)
    /\ \A i \in 1..Len(load.written) :
         /\ load.written[i].url = load.written[i].row.url
         /\ load.written[i].parent = load.written[i].row.content
         /\ persisted.chunks[Len(persisted.chunks) - Len(load.written) + i].url
              = load.written[i].row.url

(* Chunks of two rows with different urls were written in one load.         *)
C18_Witness ==
  /\ load.outcome = "built"
  /\ Len(load.written) = 2
  /\ load.written[1].row # load.written[2].row
  /\ load.written[1].url # load.written[2].url
  /\ load.written[2].url # UrlItmo

(* C19 as stated: a load that reads a corpus with a row whose content is    *)
(* missing, and whose index build does not fail, completes; no written      *)
(* chunk comes from such a row.                                             *)
C19_MissingContentSkipped ==
  (load.read_corpus /\ load.missing > 0 /\ load.error \notin {"client_error", "embed_error"}) =>
    /\ load.outcome = "built"
    /\ load.filtered_count <= load.original_count - load.missing
    /\ \A i \in 1..Len(load.written) : load.written[i].row.content # MissingContent

(* C20: no step of a retrieval call changes the persisted index or the      *)
(* vector_store reference: both are after the call what they were before.   *)
C20_RetrievalReadsOnly ==
  [][(call'.status # "none" /\ (call' # call \/ pc' # pc)) =>
       (persisted' = persisted /\ vector_store' = vector_store)]_vars

(* A call with two searches has returned from a non-empty index.            *)
C20_Witness ==
  /\ call.status = "returned"
  /\ Len(call.searches) >= 2
  /\ call.all_docs # <<>>
  /\ vector_store = Chroma
  /\ persisted.chunks # <<>>

(* The pooled list of a call that searches these queries one after the      *)
(* other with nobody else around (lines 151-158).                           *)
RECURSIVE PoolOf(_, _)
PoolOf(queries, k) ==
  IF queries = <<>> THEN <<>>
  ELSE SimilaritySearch(persisted.chunks, Head(queries), k) \o PoolOf(Tail(queries), k)

(* What a call with the inputs and the expander outcome of c returns when   *)
(* it runs alone on the index (lines 144-182).                              *)
RunAlone(c) ==
  LET docs == PoolOf(c.queries, c.num_chunks)
      pooled == Metadata(docs, c.nan_meta)
  IN <<Contexts(TopDocs(UniqueDocs(docs), c.num_chunks)),
       Urls(TopUrls(SortedByFrequency(UrlFrequency(pooled, <<>>), <<>>), c.max_links))>>

(* C15: calls interleaved on one loaded index do not disturb each other:    *)
(* what a running call has gathered is what its own searches returned, and  *)
(* what a call returns is what it returns when run alone.                   *)
C15_InterleavedCallsIndependent ==
  \A p \in Slots :
    LET c == inflight[p].call
    IN /\ c.status = "running" =>
            c.all_docs = PoolOf(SubSeq(c.queries, 1, Len(c.searches)), c.num_chunks)
       /\ c.status = "returned" => <<c.contexts, c.urls>> = RunAlone(c)

(* Two calls are in flight at once, one between its two searches, the       *)
(* other with both done; the two queries rank the chunks differently.       *)
C15_Witness ==
  /\ inflight[1].pc = "finish"
  /\ Len(inflight[1].call.all_docs) = 2
  /\ inflight[1].call.all_docs[1] # inflight[1].call.all_docs[2]
  /\ inflight[2].pc = "search"
  /\ Len(inflight[2].call.searches) = 1
  /\ Len(inflight[2].call.all_docs) = 1

(* Pooled chunks i < j with the same text and different source URLs.        *)
Merged(docs, i, j) ==
  /\ i < j
  /\ docs[i].page_content = docs[j].page_content
  /\ UrlOf(docs[i]) # UrlOf(docs[j])

(* The rank of the text of chunk i among the distinct texts of the pool, by *)
(* first occurrence.                                                        *)
DistinctRank(docs, i) ==
  Cardinality({docs[k].page_content : k \in 1..FirstTextPos(docs, docs[i].page_content)})

(* The chunk is counted under its own URL.                                  *)
CountedUnderOwnUrl(c, m) ==
  StartsWithHttp(UrlOf(c.all_docs[m])) =>
    \E e \in 1..Len(c.url_frequency) :
      /\ c.url_frequency[e].url = UrlOf(c.all_docs[m])
      /\ c.url_frequency[e].count = Occurrences(c.all_docs, UrlOf(c.all_docs[m]))

(* C21: when the pooled list holds chunks with identical text and different *)
(* source URLs, a returned call has that text in contexts once only, at the *)
(* place of its first occurrence among the distinct texts (if that place is *)
(* within num_chunks), while each of those chunks is counted under its own  *)
(* URL in the URL ranking.                                                  *)
C21_SameTextMergedUrlsCounted ==
  call.status = "returned" =>
    \A i \in 1..Len(call.all_docs) :
      \A j \in (i + 1)..Len(call.all_docs) :
        Merged(call.all_docs, i, j) =>
          /\ {k \in 1..Len(call.contexts) : call.contexts[k] = call.all_docs[i].page_content}
               = (IF DistinctRank(call.all_docs, i) <= call.num_chunks
                  THEN {DistinctRank(call.all_docs, i)} ELSE {})
          /\ CountedUnderOwnUrl(call, i)
          /\ CountedUnderOwnUrl(call, j)

(* One search returned the same text from two pages: one context, two URLs  *)
(* counted once each.                                                       *)
C21_Witness ==
  /\ call.status = "returned"
  /\ Len(call.searches) = 1
  /\ Len(call.all_docs) = 2
  /\ Merged(call.all_docs, 1, 2)
  /\ Len(call.contexts) = 1
  /\ Len(call.url_frequency) = 2
  /\ call.url_frequency[1].count = 1 /\ call.url_frequency[2].count = 1

(* C22 as stated: every entry of the context list that generate_response    *)
(* hands to answer generation is labelled "unknown" or with the URL of a    *)
(* pooled chunk that has that entry's text.                                 *)
C22_ContextLabelledWithOwnUrl ==
  \A i \in 1..Len(call.context_info) :
    \/ call.context_info[i].source_url = Unknown
    \/ \E j \in 1..Len(call.all_docs) :
         /\ call.all_docs[j].page_content = call.context_info[i].text
         /\ UrlOf(call.all_docs[j]) = call.context_info[i].source_url

(* C23 as stated: whenever load_and_process_documents has returned         *)
(* normally, by opening the existing index or by building a new one,        *)
(* vector_store is set and the precondition of get_relevant_context holds,  *)
(* so that a call entered from there starts running instead of raising      *)
(* ValueError.                                                              *)
C23_LoadedStoreIsSet ==
  /\ [](load.outcome \in {"loaded", "built"} =>
          (vector_store # None
             /\ \A has_len \in StoreHasLen :
                  ~PreconditionFails(vector_store, persisted.chunks, has_len)))
  /\ [][(load.outcome \in {"loaded", "built"} /\ call.status = "none" /\ call'.status # "none") =>
          (call'.status = "running" /\ ~call'.unset /\ call'.error = None)]_vars

(* The last k entries of a sequence.                                        *)
LastOf(s, k) == SubSeq(s, Len(s) - k + 1, Len(s))

(* C24: a load that finds the persist directory and fails to open it does   *)
(* not raise the open error and does not return early: it goes on to read   *)
(* the corpus, and when the corpus is read and the build succeeds it sets   *)
(* vector_store and persists the chunks it made; it raises only what the    *)
(* corpus or the build raises.                                              *)
C24_OpenFailureRebuilds ==
  (load.outcome # "none" /\ load.existed /\ ~load.opened) =>
    /\ load.read_corpus
    /\ load.outcome \in {"built", "raised"}
    /\ load.outcome = "raised" =>
         load.error \in {"ValueError", "AttributeError", "client_error", "embed_error"}
    /\ load.outcome = "built" =>
         /\ vector_store = Chroma
         /\ persisted.exists
         /\ Len(persisted.chunks) >= Len(load.written)
         /\ LastOf(persisted.chunks, Len(load.written)) = StoredAll(load.written)

(* The directory was there, the open failed, and the load built and         *)
(* persisted chunks from the corpus.                                        *)
C24_Witness ==
  /\ load.outcome = "built"
  /\ load.existed /\ ~load.opened
  /\ load.read_corpus
  /\ load.written # <<>>
  /\ vector_store = Chroma

(* C25 as stated: in the service every retrieval comes after a load that    *)
(* returned normally in OpenAIBot(), a failed construction leaves no        *)
(* request served, and so no request's retrieval finds the index unbuilt:   *)
(* none runs on an unset vector_store and none raises the precondition      *)
(* ValueError.                                                              *)
C25_ServedOnlyAfterLoad ==
  /\ call.status # "none" =>
       /\ BotConstructed(load)
       /\ ~call.unset
       /\ PastPrecondition(call)
  /\ load.outcome = "raised" => (call = NoCall /\ pc = "idle" /\ vector_store = None)

(* What the search of the first query of the call returned.                 *)
FirstResults(c) == SimilaritySearch(persisted.chunks, c.queries[1], c.num_chunks)

(* C26: with expansion enabled, when the search of the first expanded query *)
(* returns num_chunks results with pairwise distinct texts, the contexts of *)
(* a returned call are exactly the texts of those results in rank order,    *)
(* whatever the later queries returned.                                     *)
C26_FirstQueryFillsContexts ==
  (call.status = "returned" /\ call.expansion /\ call.queries # <<>>) =>
    LET first == FirstResults(call)
    IN (/\ Len(first) = call.num_chunks
        /\ \A i, j \in 1..Len(first) :
             first[i].page_content = first[j].page_content => i = j)
       => /\ call.contexts = [i \in 1..Len(first) |-> first[i].page_content]
          /\ SubSeq(call.all_docs, 1, Len(first)) = first

(* Three queries were searched; the first filled contexts, the later ones   *)
(* brought another text and decided the URL ranking.                        *)
C26_Witness ==
  /\ call.status = "returned"
  /\ call.expansion
  /\ Len(call.searches) = 3
  /\ call.num_chunks = 1
  /\ Len(call.all_docs) = 3
  /\ call.all_docs[2].page_content # call.all_docs[1].page_content
  /\ call.contexts = <<call.all_docs[1].page_content>>
  /\ call.urls # <<>>
  /\ call.urls[1] # UrlOf(call.all_docs[1])

====
